---- MODULE Spec2Model ----
(***************************************************************************)
(* Model of quick.py: LoadImages enumerates the files of one extension in  *)
(* a directory and opens them; ImageProcessor pads every image to the      *)
(* maximum width and stitches the padded images top to bottom; the main    *)
(* block saves the stitched canvas.                                        *)
(*                                                                         *)
(* Strings are sequences of one-character strings, so that the suffix test *)
(* of load_image_names is computed and not assumed.  An image is a record  *)
(* of its file name and its size.  A raster is a function from pixel       *)
(* coordinates <<x, y>> to the index of the image that wrote the pixel.    *)
(***************************************************************************)
EXTENDS Integers, Sequences, FiniteSets, TLC

\* Bounds of the model.
MaxFiles == 3
MaxWidth == 3
MaxHeight == 2

\* File names a directory may contain, and the extensions the user may pass.
Png == <<"p", "n", "g">>
Jpg == <<"j", "p", "g">>
FileNames ==
  { <<"a", ".">> \o Png,          \* a.png
    <<"b", ".">> \o Png,          \* b.png
    <<".">> \o Png,               \* .png
    <<"a", ".">> \o Jpg }         \* a.jpg
Extensions == {Png, Jpg, <<"g">>}

\* The directory listings os.listdir may return: distinct names, any order.
Listings ==
  { s \in UNION { [1..n -> FileNames] : n \in 0..MaxFiles } :
      \A i, j \in DOMAIN s : i # j => s[i] # s[j] }

\* The outcomes of Image.open on a file: an image of some size, or an error.
OpenError == [ok |-> FALSE, width |-> 0, height |-> 0]
OpenResults ==
  {OpenError} \cup
  { [ok |-> TRUE, width |-> w, height |-> h] : w \in 1..MaxWidth, h \in 1..MaxHeight }

VARIABLES
  pc,               \* position of the run
  listable,         \* whether os.listdir(datapath) succeeds
  listing,          \* what os.listdir(datapath) returns
  tp,               \* self.tp
  image_names,      \* self.image_names
  local_images,     \* the local list `images` of load_images
  li,               \* position of the loop of load_images
  opened,           \* the calls of Image.open made so far, with their outcome
  images,           \* self.images
  image_count,      \* self.image_count
  combined_height,  \* self.combined_height
  max_width,        \* self.max_width
  max_height,       \* self.max_height
  processed_images, \* self.processed_images
  stitched_image,   \* the local canvas of stitch_images
  offset,           \* the local offset of stitch_images
  si,               \* position of the loop of stitch_images
  pastes,           \* the calls of stitched_image.paste made so far
  output            \* the file written by save

vars == <<pc, listable, listing, tp, image_names, local_images, li, opened,
          images, image_count, combined_height, max_width, max_height,
          processed_images, stitched_image, offset, si, pastes, output>>

\* Values of attributes and files that do not exist (yet).
Unset == -1
NoRaster == [width |-> Unset, height |-> Unset, pix |-> << >>]

----------------------------------------------------------------------------
\* Pure functions of the program.

\* str.endswith
endswith(s, suffix) ==
  /\ Len(suffix) <= Len(s)
  /\ SubSeq(s, Len(s) - Len(suffix) + 1, Len(s)) = suffix

\* The test of load_image_names: filename.endswith(".{}".format(self.tp))
matches_nodot(filename, ext) == endswith(filename, ext)
matches(filename, ext) == endswith(filename, <<".">> \o ext)

\* The loop of load_image_names over the directory listing.
RECURSIVE load_image_names_loop(_, _, _)
load_image_names_loop(names, ext, acc) ==
  IF names = << >> THEN acc
  ELSE load_image_names_loop(Tail(names), ext,
         IF matches(Head(names), ext) THEN Append(acc, Head(names)) ELSE acc)

load_image_names(names, ext) == load_image_names_loop(names, ext, << >>)

\* One iteration of the loop of load_images: Image.open raises or the image
\* is appended.
load_images_step_skip(imgs, filename, res) ==
  IF res.ok
    THEN [images |-> Append(imgs, [filename |-> filename, width |-> res.width,
                                   height |-> res.height]),
          raised |-> FALSE]
    ELSE [images |-> imgs, raised |-> FALSE]
load_images_step(imgs, filename, res) ==
  IF res.ok
    THEN [images |-> Append(imgs, [filename |-> filename, width |-> res.width,
                                   height |-> res.height]),
          raised |-> FALSE]
    ELSE [images |-> imgs, raised |-> TRUE]

\* sum(...)
RECURSIVE sum(_)
sum(s) == IF s = << >> THEN 0 ELSE Head(s) + sum(Tail(s))

\* get_combined_height
get_combined_height_widths(imgs) == sum([i \in 1..Len(imgs) |-> imgs[i].width])
get_combined_height(imgs) == sum([i \in 1..Len(imgs) |-> imgs[i].height])

\* get_image_count
get_image_count(imgs) == Len(imgs)

\* The loop of get_max_size_image.
RECURSIVE max_size_loop(_, _, _)
max_size_loop(imgs, mw, mh) ==
  IF imgs = << >> THEN <<mw, mh>>
  ELSE max_size_loop(Tail(imgs),
         IF Head(imgs).width > mw THEN Head(imgs).width ELSE mw,
         IF Head(imgs).height > mh THEN Head(imgs).height ELSE mh)

get_max_size_image_last(imgs) ==
  IF imgs = << >> THEN <<0, 0>>
  ELSE <<imgs[Len(imgs)].width, imgs[Len(imgs)].height>>
get_max_size_image(imgs) == max_size_loop(imgs, 0, 0)

\* The pixels of a raster of size width x height.
Pixels(width, height) == (0..(width - 1)) \X (0..(height - 1))

\* The pixels a paste of a w x h image at <<x, y>> writes in a raster of
\* size width x height: the box of the image, clipped to the raster.
PasteRegion(width, height, x, y, w, h) ==
  { p \in Pixels(width, height) :
      /\ x <= p[1] /\ p[1] < x + w
      /\ y <= p[2] /\ p[2] < y + h }

\* Image.new
new(width, height) ==
  [width |-> width, height |-> height, pix |-> [p \in Pixels(width, height) |-> 0]]

\* The offset computed by change_image_size_by_filling.
fill_offset_nohalf(image, width, height) ==
  <<width - image.width, (height - image.height) \div 2>>
fill_offset_bywidth(image, width, height) ==
  <<(width - image.width) \div 2, (width - image.height) \div 2>>
fill_offset(image, width, height) ==
  <<(width - image.width) \div 2, (height - image.height) \div 2>>

\* The size of the background of change_image_size_by_filling.
background_size_same(image, width, height) == <<image.width, image.height>>
background_size(image, width, height) == <<width, image.height>>

\* change_image_size_by_filling: the background with the image pasted at the
\* offset.  covered is the set of pixels of the background the image wrote.
change_image_size_by_filling(image, width, height) ==
  LET size == background_size(image, width, height)
      off  == fill_offset(image, width, height)
  IN  [filename |-> image.filename,
       width    |-> size[1],
       height   |-> size[2],
       offx     |-> off[1],
       offy     |-> off[2],
       covered  |-> PasteRegion(size[1], size[2], off[1], off[2],
                                image.width, image.height)]

\* change_images
change_images(imgs, mw) ==
  [i \in 1..Len(imgs) |-> change_image_size_by_filling(imgs[i], mw, imgs[i].height)]

\* stitched_image.paste(image, (x, y)) as the k-th paste
paste(raster, k, image, x, y) ==
  LET region == PasteRegion(raster.width, raster.height, x, y,
                            image.width, image.height)
  IN  [raster EXCEPT !.pix = [p \in DOMAIN raster.pix |->
                                IF p \in region THEN k ELSE raster.pix[p]]]

\* offset += image.height
next_offset_width(off, image) == off + image.width
next_offset_one(off, image) == off + 1
next_offset(off, image) == off + image.height

----------------------------------------------------------------------------
\* The run.

Init ==
  /\ pc = "load_image_names"
  /\ listable \in BOOLEAN
  /\ listing \in Listings
  /\ tp \in Extensions
  /\ image_names = << >>
  /\ local_images = << >>
  /\ li = 1
  /\ opened = << >>
  /\ images = << >>
  /\ image_count = Unset
  /\ combined_height = Unset
  /\ max_width = Unset
  /\ max_height = Unset
  /\ processed_images = << >>
  /\ stitched_image = NoRaster
  /\ offset = Unset
  /\ si = 1
  /\ pastes = << >>
  /\ output = NoRaster

\* os.listdir raises: the run ends in LoadImages.__init__.
ListDirFails ==
  /\ pc = "load_image_names"
  /\ ~listable
  /\ pc' = "aborted"
  /\ UNCHANGED <<listable, listing, tp, image_names, local_images, li, opened,
                 images, image_count, combined_height, max_width, max_height,
                 processed_images, stitched_image, offset, si, pastes, output>>

\* self.image_names = self.load_image_names()
LoadImageNames ==
  /\ pc = "load_image_names"
  /\ listable
  /\ image_names' = load_image_names(listing, tp)
  /\ local_images' = << >>
  /\ li' = 1
  /\ pc' = "load_images"
  /\ UNCHANGED <<listable, listing, tp, opened, images, image_count,
                 combined_height, max_width, max_height, processed_images,
                 stitched_image, offset, si, pastes, output>>

\* One iteration of the loop of load_images.
LoadImage ==
  /\ pc = "load_images"
  /\ li <= Len(image_names)
  /\ \E res \in OpenResults :
       LET r == load_images_step(local_images, image_names[li], res)
       IN  /\ opened' = Append(opened, [filename |-> image_names[li], ok |-> res.ok])
           /\ local_images' = r.images
           /\ IF r.raised
                THEN pc' = "aborted" /\ li' = li
                ELSE pc' = pc /\ li' = li + 1
  /\ UNCHANGED <<listable, listing, tp, image_names, images, image_count,
                 combined_height, max_width, max_height, processed_images,
                 stitched_image, offset, si, pastes, output>>

\* self.images = images; return images
LoadImagesReturn ==
  /\ pc = "load_images"
  /\ li > Len(image_names)
  /\ images' = local_images
  /\ pc' = "get_image_count"
  /\ UNCHANGED <<listable, listing, tp, image_names, local_images, li, opened,
                 image_count, combined_height, max_width, max_height,
                 processed_images, stitched_image, offset, si, pastes, output>>

\* self.image_count = self.get_image_count()
GetImageCount ==
  /\ pc = "get_image_count"
  /\ image_count' = get_image_count(images)
  /\ pc' = "get_combined_height"
  /\ UNCHANGED <<listable, listing, tp, image_names, local_images, li, opened,
                 images, combined_height, max_width, max_height,
                 processed_images, stitched_image, offset, si, pastes, output>>

\* self.combined_height = self.get_combined_height()
GetCombinedHeight ==
  /\ pc = "get_combined_height"
  /\ combined_height' = get_combined_height(images)
  /\ pc' = "get_max_size_image"
  /\ UNCHANGED <<listable, listing, tp, image_names, local_images, li, opened,
                 images, image_count, max_width, max_height,
                 processed_images, stitched_image, offset, si, pastes, output>>

\* self.max_width, self.max_height = self.get_max_size_image()
GetMaxSizeImage ==
  /\ pc = "get_max_size_image"
  /\ max_width' = get_max_size_image(images)[1]
  /\ max_height' = get_max_size_image(images)[2]
  /\ pc' = "change_images"
  /\ UNCHANGED <<listable, listing, tp, image_names, local_images, li, opened,
                 images, image_count, combined_height,
                 processed_images, stitched_image, offset, si, pastes, output>>

\* self.processed_images = self.change_images()
ChangeImages ==
  /\ pc = "change_images"
  /\ processed_images' = change_images(images, max_width)
  /\ pc' = "get_stitched_image"
  /\ UNCHANGED <<listable, listing, tp, image_names, local_images, li, opened,
                 images, image_count, combined_height, max_width, max_height,
                 stitched_image, offset, si, pastes, output>>

\* The arguments get_stitched_image passes to stitch_images.
get_stitched_image_args_maxheight ==
  [images |-> processed_images, width |-> max_width, height |-> max_height]
get_stitched_image_args ==
  [images |-> processed_images, width |-> max_width, height |-> combined_height]

\* get_stitched_image calls stitch_images, which creates the canvas.
StitchNew ==
  /\ pc = "get_stitched_image"
  /\ stitched_image' = new(get_stitched_image_args.width, get_stitched_image_args.height)
  /\ offset' = 0
  /\ si' = 1
  /\ pc' = "stitch_images"
  /\ UNCHANGED <<listable, listing, tp, image_names, local_images, li, opened,
                 images, image_count, combined_height, max_width, max_height,
                 processed_images, pastes, output>>

\* One iteration of the loop of stitch_images.
StitchPaste ==
  /\ pc = "stitch_images"
  /\ si <= Len(get_stitched_image_args.images)
  /\ LET image == get_stitched_image_args.images[si]
     IN  /\ stitched_image' = paste(stitched_image, si, image, 0, offset)
         /\ pastes' = Append(pastes, [image |-> si, x |-> 0, y |-> offset])
         /\ offset' = next_offset(offset, image)
  /\ si' = si + 1
  /\ UNCHANGED <<pc, listable, listing, tp, image_names, local_images, li, opened,
                 images, image_count, combined_height, max_width, max_height,
                 processed_images, output>>

\* return stitched_image
StitchReturn ==
  /\ pc = "stitch_images"
  /\ si > Len(get_stitched_image_args.images)
  /\ pc' = "save"
  /\ UNCHANGED <<listable, listing, tp, image_names, local_images, li, opened,
                 images, image_count, combined_height, max_width, max_height,
                 processed_images, stitched_image, offset, si, pastes, output>>

\* stitched_image.save(os.path.join(pth, args.out))
Save ==
  /\ pc = "save"
  /\ output' = stitched_image
  /\ pc' = "done"
  /\ UNCHANGED <<listable, listing, tp, image_names, local_images, li, opened,
                 images, image_count, combined_height, max_width, max_height,
                 processed_images, stitched_image, offset, si, pastes>>

Next ==
  \/ ListDirFails
  \/ LoadImageNames
  \/ LoadImage
  \/ LoadImagesReturn
  \/ GetImageCount
  \/ GetCombinedHeight
  \/ GetMaxSizeImage
  \/ ChangeImages
  \/ StitchNew
  \/ StitchPaste
  \/ StitchReturn
  \/ Save

Spec == Init /\ [][Next]_vars

----------------------------------------------------------------------------
\* Vocabulary of the properties, defined without the operators of the run.

APng == <<"a", ".">> \o Png
BPng == <<"b", ".">> \o Png
AJpg == <<"a", ".">> \o Jpg

\* filename is some prefix followed by "." and the extension.
HasDotExtension(filename, ext) ==
  \E k \in 0..Len(filename) : filename = SubSeq(filename, 1, k) \o <<".">> \o ext

\* The largest element of a non-empty set of numbers.
Largest(S) == CHOOSE m \in S : \A x \in S : x <= m

\* The number of pixel rows of the first k images of imgs.
Rows(imgs, k) ==
  Cardinality({ q \in (1..k) \X (1..(MaxHeight + 1)) : q[2] <= imgs[q[1]].height })

Constructed == pc \in {"get_stitched_image", "stitch_images", "save", "done"}
Stitched == pc \in {"save", "done"}

\* C1: after the construction of LoadImages, image_names is the subsequence
\* of the directory listing whose names end with "." followed by the
\* extension, in listing order; images has the same length and images[i] was
\* opened from image_names[i]; image_count is that length.
C1_LoadedNames ==
  /\ (listable /\ pc # "load_image_names") =>
       image_names = SelectSeq(listing, LAMBDA f : HasDotExtension(f, tp))
  /\ pc \notin {"load_image_names", "load_images", "aborted"} =>
       /\ Len(images) = Len(image_names)
       /\ \A i \in 1..Len(images) : images[i].filename = image_names[i]
  /\ pc \notin {"load_image_names", "load_images", "get_image_count", "aborted"} =>
       image_count = Len(SelectSeq(listing, LAMBDA f : HasDotExtension(f, tp)))

\* C1 witness: a listing b.png, a.jpg, a.png loaded with extension png.
C1_Witness ==
  /\ pc = "done"
  /\ tp = Png
  /\ listing = <<BPng, AJpg, APng>>
  /\ image_names = <<BPng, APng>>
  /\ image_count = 2

\* C2: stitching pastes the padded images in loader order, each at
\* horizontal offset 0 and at the vertical offset that is the sum of the
\* heights of the images pasted before it; the offset starts at 0 and grows
\* by the height of each image after it is placed.
C2_StitchOffsets ==
  /\ \A k \in 1..Len(pastes) :
       /\ pastes[k].image = k
       /\ pastes[k].x = 0
       /\ pastes[k].y = Rows(processed_images, k - 1)
  /\ pc = "stitch_images" =>
       /\ Len(pastes) = si - 1
       /\ offset = Rows(processed_images, Len(pastes))
  /\ Stitched => Len(pastes) = Len(processed_images)

\* C2 witness: heights 1, 2, 1 are pasted at offsets 0, 1, 3.
C2_Witness ==
  /\ pc = "done"
  /\ Len(processed_images) = 3
  /\ processed_images[1].height = 1
  /\ processed_images[2].height = 2
  /\ processed_images[3].height = 1
  /\ pastes = << [image |-> 1, x |-> 0, y |-> 0],
                 [image |-> 2, x |-> 0, y |-> 1],
                 [image |-> 3, x |-> 0, y |-> 3] >>

\* C3: the canvas returned by get_stitched_image has the height that is the
\* sum of the heights of the padded images and the width max_width, which
\* every padded image has.
C3_CanvasSize ==
  pc \in {"stitch_images", "save", "done"} =>
    /\ stitched_image.height = Rows(processed_images, Len(processed_images))
    /\ stitched_image.width = max_width
    /\ \A i \in 1..Len(processed_images) :
         processed_images[i].width = stitched_image.width
    /\ DOMAIN stitched_image.pix = Pixels(stitched_image.width, stitched_image.height)

\* C3 witness: three images of different sizes give a canvas of 3 x 4.
C3_Witness ==
  /\ pc = "save"
  /\ Len(images) = 3
  /\ images[1].width = 1 /\ images[1].height = 1
  /\ images[2].width = 3 /\ images[2].height = 2
  /\ images[3].width = 2 /\ images[3].height = 1
  /\ stitched_image.width = 3
  /\ stitched_image.height = 4

C5_OffsetFromWidth ==
  \A i \in 1..Len(processed_images) :
    processed_images[i].offy = (max_width - images[i].height) \div 2

\* C5 amended: the vertical paste offset of the padding step is
\* (height - image.height) // 2 for the height argument, whatever the target
\* width; change_images passes the height of the image itself, so that the
\* offset of every processed image is 0.  The first conjunct ranges over all
\* images and targets of the model and is evaluated where change_images is
\* about to run.
C5_OffsetFromHeight ==
  /\ pc = "change_images" =>
     \A w \in 1..MaxWidth, h \in 1..MaxHeight, t1 \in 1..MaxWidth, t2 \in 1..MaxWidth :
       LET image == [filename |-> APng, width |-> w, height |-> h]
       IN  change_image_size_by_filling(image, t1, h).offy
             = change_image_size_by_filling(image, t2, h).offy
  /\ \A i \in 1..Len(processed_images) : processed_images[i].offy = 0

\* C5 witness: an image padded to a width that exceeds its height by two.
C5_Witness ==
  /\ Constructed
  /\ Len(processed_images) >= 1
  /\ max_width = 3
  /\ images[1].height = 1
  /\ processed_images[1].offy = 0

\* C6: the horizontal paste offset of the padding step is
\* (target_width - image.width) // 2; for every image padded to max_width
\* it is at least 0, the image lies inside the background, and the left and
\* right margins differ by at most one pixel.
C6_HorizontalOffset ==
  Constructed =>
    \A i \in 1..Len(processed_images) :
      LET left  == processed_images[i].offx
          right == max_width - images[i].width - left
      IN  /\ 2 * left \in {max_width - images[i].width, max_width - images[i].width - 1}
          /\ left >= 0
          /\ left + images[i].width <= max_width
          /\ right - left \in {0, 1}
          /\ Cardinality(processed_images[i].covered)
               = images[i].width * images[i].height

\* C6 witness: margins 1 and 1 around a width of 1, and 0 and 1 around a
\* width of 2, in a background of width 3.
C6_Witness ==
  /\ Constructed
  /\ Len(images) = 3
  /\ max_width = 3
  /\ images[1].width = 1 /\ processed_images[1].offx = 1
  /\ images[2].width = 2 /\ processed_images[2].offx = 0

\* C7: max_width is 0 for an empty image set and the largest width of the
\* loaded images otherwise, and stays the value get_max_size_image computes
\* on the image set; max_height likewise.
C7_MaxSize ==
  pc \in {"change_images", "get_stitched_image", "stitch_images", "save", "done"} =>
    /\ images = << >> => max_width = 0 /\ max_height = 0
    /\ images # << >> =>
         /\ max_width = Largest({ images[i].width : i \in 1..Len(images) })
         /\ max_height = Largest({ images[i].height : i \in 1..Len(images) })
    /\ <<max_width, max_height>> = get_max_size_image(images)

\* C7 witness: the widest image is neither the first nor the last.
C7_Witness ==
  /\ pc = "done"
  /\ Len(images) = 3
  /\ images[1].width = 1
  /\ images[2].width = 3
  /\ images[3].width = 2
  /\ max_width = 3

\* C8: combined_height is the sum of the heights of the loaded images, and
\* 0 for the empty set.
C8_CombinedHeight ==
  pc \in {"get_max_size_image", "change_images", "get_stitched_image",
          "stitch_images", "save", "done"} =>
    /\ combined_height = Rows(images, Len(images))
    /\ images = << >> => combined_height = 0

\* C8 witness: heights 1, 2, 1 combine to 4.
C8_Witness ==
  /\ pc = "get_max_size_image"
  /\ Len(images) = 3
  /\ images[1].height = 1
  /\ images[2].height = 2
  /\ images[3].height = 1
  /\ combined_height = 4

NothingProduced ==
  /\ images = << >>
  /\ processed_images = << >>
  /\ stitched_image = NoRaster
  /\ pastes = << >>
  /\ output = NoRaster

\* C9: when the directory cannot be listed, or a matching file cannot be
\* opened, the run is aborted at that point: the file that failed is the
\* last one opened, nothing is padded or stitched and no output is written.
C9_AbortOnError ==
  /\ ~listable => (opened = << >> /\ image_names = << >> /\ NothingProduced)
  /\ (\E k \in 1..Len(opened) : ~opened[k].ok) =>
       /\ pc = "aborted"
       /\ ~opened[Len(opened)].ok
       /\ \A k \in 1..(Len(opened) - 1) : opened[k].ok
       /\ NothingProduced
  /\ pc = "aborted" => NothingProduced
  /\ pc = "done" => (listable /\ Len(opened) = Len(image_names))

\* C9 witness: the second of three matching files cannot be opened.
C9_Witness ==
  /\ pc = "aborted"
  /\ Len(image_names) = 3
  /\ Len(opened) = 2
  /\ opened[1].ok
  /\ ~opened[2].ok

\* The rows of the canvas the k-th paste writes.
Band(k) == { y \in 0..(stitched_image.height - 1) :
               pastes[k].y <= y /\ y < pastes[k].y + processed_images[k].height }

\* C10: in the canvas returned by get_stitched_image, image i occupies the
\* rows from its offset to its offset plus its height and all the columns;
\* the bands are pairwise disjoint, lie within the canvas, the last ends at
\* combined_height, and every pixel of the canvas was written by the image
\* of its band.
C10_BandsPartitionCanvas ==
  Stitched =>
    /\ \A k \in 1..Len(pastes) :
         /\ pastes[k].y >= 0
         /\ pastes[k].y + processed_images[k].height <= stitched_image.height
         /\ processed_images[k].width = stitched_image.width
         /\ Cardinality(Band(k)) = processed_images[k].height
         /\ \A j \in 1..Len(pastes) : j # k => Band(j) \cap Band(k) = {}
         /\ { p \in DOMAIN stitched_image.pix : stitched_image.pix[p] = k }
              = (0..(max_width - 1)) \X Band(k)
    /\ Len(pastes) > 0 =>
         pastes[Len(pastes)].y + processed_images[Len(pastes)].height = combined_height
    /\ stitched_image.height = combined_height
    /\ \A p \in DOMAIN stitched_image.pix : stitched_image.pix[p] # 0

\* C10 witness: a canvas of three bands of different heights.
C10_Witness ==
  /\ pc = "done"
  /\ Len(pastes) = 3
  /\ stitched_image.width = 2
  /\ stitched_image.height = 4
  /\ stitched_image.pix[<<0, 0>>] = 1
  /\ stitched_image.pix[<<1, 2>>] = 2
  /\ stitched_image.pix[<<1, 3>>] = 3

====
